---------------------------- MODULE Spec2Model ----------------------------
(***************************************************************************)
(* A model of the portfolio dashboard: the main script stock_app.py and    *)
(* the two sub-pages under pages/.  Every Streamlit rerun executes one     *)
(* script from top to bottom; one action of the model is one such run.     *)
(*                                                                         *)
(* Numbers are floats in the program.  They are modelled as exact          *)
(* rationals n/d in lowest terms, together with the IEEE specials the      *)
(* code can produce (nan, +inf, -inf) and Python's None.                   *)
(***************************************************************************)
EXTENDS Integers, Sequences, FiniteSets, TLC

VARIABLES
    secrets,        \* st.secrets: the set of configured keys
    session_state,  \* st.session_state: a function from keys to values
    now,            \* wall clock, in seconds
    rate_cache,     \* the st.cache_data entry of get_exchange_rate
    page,           \* the script whose run produced what is on screen
    gsheet_id,      \* stock_app.py: gsheet_id of the last run
    usd_to_twd,     \* stock_app.py: usd_to_twd of the last run
    holdings,       \* the rows load_data returned (df before line 83)
    price_map,      \* stock_app.py: price_map
    div_map,        \* stock_app.py: div_map
    df,             \* df after line 83: the rows with their derived columns
    summary,        \* t_val, t_profit, t_div and the KPI delta
    Close,          \* h['Close'] of the selected stock
    RSI,            \* h['RSI']
    columns,        \* the column headers of the sheet the last run loaded
    symbols,        \* pages/: what load_symbols returned
    symbols_at,     \* when load_symbols last got the symbol list (-1: never)
    password,       \* the text last submitted to the password prompt
    widgets,        \* what the last run put on screen, in order
    error,          \* how the last run ended: "", "caught" or "uncaught"
    calls           \* the requests the last run sent to the outside, in order

vars == <<secrets, session_state, now, rate_cache, page, gsheet_id, usd_to_twd,
          holdings, price_map, div_map, df, summary, Close, RSI,
          columns, symbols, symbols_at, password, widgets, error, calls>>

---------------------------------------------------------------------------
(* Float arithmetic                                                        *)

Abs(x) == IF x < 0 THEN -x ELSE x

RECURSIVE GCD(_, _)
GCD(a, b) == IF b = 0 THEN a ELSE GCD(b, a % b)

\* the rational n/d (d # 0) in lowest terms with a positive denominator
Q(n, d) ==
    LET s == IF d < 0 THEN -1 ELSE 1
        g == GCD(Abs(n), Abs(d))
    IN  [k |-> "num", n |-> (s * n) \div g, d |-> (s * d) \div g]

I(n) == Q(n, 1)
NaN == [k |-> "nan", n |-> 0, d |-> 1]
PInf == [k |-> "inf", n |-> 1, d |-> 1]
NInf == [k |-> "inf", n |-> -1, d |-> 1]
NoneV == [k |-> "none", n |-> 0, d |-> 1]

Sign(a) == IF a.n > 0 THEN 1 ELSE IF a.n < 0 THEN -1 ELSE 0
Inf(s) == IF s > 0 THEN PInf ELSE NInf

FNeg(a) == IF a.k = "nan" THEN NaN ELSE [a EXCEPT !.n = -a.n]

FAdd(a, b) ==
    IF a.k = "nan" \/ b.k = "nan" THEN NaN
    ELSE IF a.k = "inf" /\ b.k = "inf" THEN (IF a.n = b.n THEN a ELSE NaN)
    ELSE IF a.k = "inf" THEN a
    ELSE IF b.k = "inf" THEN b
    ELSE Q(a.n * b.d + b.n * a.d, a.d * b.d)

FSub(a, b) == FAdd(a, FNeg(b))

FMul(a, b) ==
    IF a.k = "nan" \/ b.k = "nan" THEN NaN
    ELSE IF a.k = "inf" \/ b.k = "inf"
         THEN (IF Sign(a) * Sign(b) = 0 THEN NaN ELSE Inf(Sign(a) * Sign(b)))
    ELSE Q(a.n * b.n, a.d * b.d)

\* a / b as numpy divides floats; zs is the sign of b when b is a zero
FDivZ(a, b, zs) ==
    IF a.k = "nan" \/ b.k = "nan" THEN NaN
    ELSE IF a.k = "inf" /\ b.k = "inf" THEN NaN
    ELSE IF a.k = "inf" THEN Inf(Sign(a) * (IF b.n = 0 THEN zs ELSE Sign(b)))
    ELSE IF b.k = "inf" THEN I(0)
    ELSE IF b.n = 0 THEN (IF a.n = 0 THEN NaN ELSE Inf(Sign(a) * zs))
    ELSE Q(a.n * b.d, a.d * b.n)

FDiv(a, b) == FDivZ(a, b, 1)

\* a > b; a comparison with nan is False
FGt(a, b) ==
    /\ a.k # "nan" /\ b.k # "nan"
    /\ IF a.k = "inf" /\ b.k = "inf" THEN a.n > b.n
       ELSE IF a.k = "inf" THEN a.n > 0
       ELSE IF b.k = "inf" THEN b.n < 0
       ELSE a.n * b.d > b.n * a.d

RECURSIVE FSum(_)
FSum(s) == IF s = <<>> THEN I(0) ELSE FAdd(Head(s), FSum(Tail(s)))

---------------------------------------------------------------------------
(* 4. Valuation: stock_app.py lines 61-83                                  *)

bond_list == {"TLT", "SHV", "SGOV", "LQD"}

\* the multiplier 0.7 of line 75: 30% is withheld
withholding == Q(7, 10)

Get(map, key, default) == IF key \in DOMAIN map THEN map[key] ELSE default

Derived(row, curr_price, mv_twd, profit_twd, roi, net_div_twd, yield_rate) ==
    [name |-> row.name, symbol |-> row.symbol, shares |-> row.shares,
     cost |-> row.cost, currency |-> row.currency,
     current_price |-> curr_price, mv_twd |-> mv_twd, profit_twd |-> profit_twd,
     roi |-> roi, net_div_twd |-> net_div_twd, yield_rate |-> yield_rate,
     raised |-> FALSE]

Raised(row) ==
    [Derived(row, NaN, NaN, NaN, NaN, NaN, NaN) EXCEPT !.raised = TRUE]

\* a slip: every holding is converted, whatever its currency
conversion_any_currency(row, rate) == rate

\* the factor of lines 66-67: (usd_to_twd if row['currency'] == "USD" else 1)
conversion(row, rate) == IF row.currency = "USD" THEN rate ELSE I(1)

\* line 66
market_value(row, curr_price, rate) ==
    FMul(FMul(curr_price, row.shares), conversion(row, rate))

\* a slip: the cost is left in the holding's own currency
cost_value_unconverted(row, rate) == FMul(row.cost, row.shares)

\* line 67
cost_value(row, rate) == FMul(FMul(row.cost, row.shares), conversion(row, rate))

\* a slip: the division without its guard
return_on_investment_unguarded(profit_twd, cost_twd) ==
    FMul(FDiv(profit_twd, cost_twd), I(100))

\* line 69
return_on_investment(profit_twd, cost_twd) ==
    IF FGt(cost_twd, I(0)) THEN FMul(FDiv(profit_twd, cost_twd), I(100)) ELSE I(0)

\* a slip: the bond list is ignored and every USD dividend is taxed
net_dividend_taxes_bonds(row, div_per_share, rate) ==
    IF row.currency = "USD"
    THEN FMul(FMul(FMul(div_per_share, row.shares), withholding), rate)
    ELSE FMul(div_per_share, row.shares)

\* lines 72-78
net_dividend(row, div_per_share, rate) ==
    LET total_div_raw == FMul(div_per_share, row.shares)
        tax_rate == IF row.symbol \notin bond_list THEN withholding ELSE I(1)
    IN  IF row.currency = "USD"
        THEN FMul(FMul(total_div_raw, tax_rate), rate)
        ELSE total_div_raw

\* line 80
dividend_yield(div_per_share, curr_price) ==
    IF FGt(curr_price, I(0)) THEN FMul(FDiv(div_per_share, curr_price), I(100))
    ELSE I(0)

\* lines 64-81; None * shares raises TypeError
process_row(row, pm, dm, rate) ==
    LET curr_price == Get(pm, row.symbol, I(0))
        mv_twd == market_value(row, curr_price, rate)
        cost_twd == cost_value(row, rate)
        profit_twd == FSub(mv_twd, cost_twd)
        roi == return_on_investment(profit_twd, cost_twd)
        div_per_share == Get(dm, row.symbol, I(0))
        net_div_twd == net_dividend(row, div_per_share, rate)
        yield_rate == dividend_yield(div_per_share, curr_price)
    IN  IF curr_price.k = "none" THEN Raised(row)
        ELSE Derived(row, curr_price, mv_twd, profit_twd, roi, net_div_twd, yield_rate)

\* df.apply(process_row, axis=1)
Apply(rows, pm, dm, rate) == [i \in DOMAIN rows |-> process_row(rows[i], pm, dm, rate)]

AnyRaised(rows) == \E i \in DOMAIN rows : rows[i].raised

---------------------------------------------------------------------------
(* RSI: stock_app.py lines 136-139, pages/1_Technical_Analysis.py 38-41    *)

\* the window of rolling(14)
RSIWindow == 14

\* h['Close'].diff(): the first entry has no predecessor
diff(c) == [i \in DOMAIN c |-> IF i = 1 THEN NaN ELSE FSub(c[i], c[i - 1])]

\* delta.where(delta > 0, 0): a nan compares False and is replaced too
gains(delta) == [i \in DOMAIN delta |-> IF FGt(delta[i], I(0)) THEN delta[i] ELSE I(0)]

\* -delta.where(delta < 0, 0)
losses(delta) ==
    [i \in DOMAIN delta |-> FNeg(IF FGt(I(0), delta[i]) THEN delta[i] ELSE I(0))]

\* s.rolling(w).mean(): undefined (nan) for the first w-1 points
rolling_mean(s, w) ==
    [i \in DOMAIN s |->
        IF i < w THEN NaN ELSE FDiv(FSum(SubSeq(s, i - w + 1, i)), I(w))]

avg_gain(c) == rolling_mean(gains(diff(c)), RSIWindow)
avg_loss(c) == rolling_mean(losses(diff(c)), RSIWindow)

\* 100 - (100 / (1 + gain/loss)); zs is the sign of a zero average loss
rsi(c, zs) ==
    LET gain == avg_gain(c)
        loss == avg_loss(c)
    IN  [i \in DOMAIN c |->
            FSub(I(100), FDiv(I(100), FAdd(I(1), FDivZ(gain[i], loss[i], zs))))]

---------------------------------------------------------------------------
(* Bounds and the answers the outside world can give                       *)

MaxTime == 3600
TickStep == 1800
HistLen == 15

SheetId == "sheet-1"
SidebarTexts == {"", SheetId}

AllCols == {"name", "symbol", "shares", "cost", "currency"}

Row(name, symbol, shares, cost, currency) ==
    [name |-> name, symbol |-> symbol, shares |-> I(shares), cost |-> I(cost),
     currency |-> currency]

Apple == Row("Apple", "AAPL", 10, 100, "USD")
Bond == Row("Treasury 20Y", "TLT", 5, 90, "USD")

Sheet(cols, rows) == [ok |-> TRUE, cols |-> cols, rows |-> rows]
NoSheet == [ok |-> FALSE, cols |-> {}, rows |-> <<>>]

\* what the spreadsheet export can answer: a failure (network, malformed CSV),
\* a sheet with every column, or a sheet that lacks one
SheetResponses ==
    {NoSheet, Sheet(AllCols, <<Apple, Bond>>), Sheet(AllCols, <<Bond>>)}
    \cup {Sheet(AllCols \ {c}, <<Bond>>) : c \in {"symbol", "cost", "name"}}

\* fast_info['last_price']: a price, or None when the provider has none
Prices == {NoneV, I(150)}

\* tk.dividends: empty, or payouts whose last-year sum is last_year
NoDivs == [empty |-> TRUE, last_year |-> I(0)]
Divs(x) == [empty |-> FALSE, last_year |-> I(x)]
DivResponses == {NoDivs, Divs(2)}

\* the exchange-rate quote: a rate, None, or (Raise) an exception
Raise == [k |-> "raise", n |-> 0, d |-> 1]
RateResponses == {I(32), NoneV, Raise}

\* a close series of three flat stretches a, b, c with steps after i and j
Seg(a, b, c, i, j, len) ==
    [x \in 1..len |-> IF x <= i THEN I(a) ELSE IF x <= j THEN I(b) ELSE I(c)]

HistoryResponses ==
    {<<>>, Seg(100, 100, 100, 0, 0, HistLen), Seg(100, 101, 101, 5, 5, HistLen),
     Seg(101, 100, 102, 1, 8, HistLen)}

ZeroLoss(c) == \E i \in DOMAIN c : i >= RSIWindow /\ avg_loss(c)[i] = I(0)
ZeroSigns(c) == IF ZeroLoss(c) THEN {1, -1} ELSE {1}

\* h after the indicator lines, for every history the provider can return
Computed(cs) ==
    {[Close |-> c, RSI |-> rsi(c, zs)]
     : <<c, zs>> \in {<<c, zs>> \in cs \X {1, -1} : zs \in ZeroSigns(c)}}
Histories == Computed(HistoryResponses)

---------------------------------------------------------------------------
(* One script run.  A run starts from fresh module-level names; only       *)
(* st.session_state, st.secrets and the st.cache_data entry outlive it.    *)

EmptyMap == [x \in {} |-> NaN]
NoSummary == [t_val |-> NoneV, t_profit |-> NoneV, t_div |-> NoneV, pct |-> NoneV]

Fresh(pg) ==
    [page |-> pg, gsheet_id |-> "", usd_to_twd |-> NoneV, holdings |-> <<>>,
     price_map |-> EmptyMap, div_map |-> EmptyMap, df |-> <<>>,
     summary |-> NoSummary, Close |-> <<>>, RSI |-> <<>>,
     columns |-> {}, symbols |-> <<>>, password |-> "", widgets |-> <<>>,
     error |-> "",
     calls |-> <<>>, rate_cache |-> rate_cache]

Show(s, w) == [s EXCEPT !.widgets = @ \o w]
Call(s, to, arg, result) ==
    [s EXCEPT !.calls = Append(@, [to |-> to, arg |-> arg, result |-> result])]

\* except Exception as e: st.error(...)
Caught(s) == [s EXCEPT !.error = "caught", !.widgets = Append(@, "error")]
\* an exception outside the try: the run dies and Streamlit prints the traceback
Uncaught(s) == [s EXCEPT !.error = "uncaught", !.widgets = Append(@, "traceback")]

Put(map, key, v) == [x \in DOMAIN map \cup {key} |-> IF x = key THEN v ELSE map[x]]
Range(s) == {s[i] : i \in DOMAIN s}
Column(rows) == [i \in DOMAIN rows |-> rows[i].symbol]

\* Series.unique(): the first occurrences, in order
unique(s) ==
    LET F[i \in 0..Len(s)] ==
            IF i = 0 THEN <<>>
            ELSE IF s[i] \in Range(F[i - 1]) THEN F[i - 1] ELSE Append(F[i - 1], s[i])
    IN  F[Len(s)]

NonBonds(syms) == SelectSeq(syms, LAMBDA x : x \notin bond_list)

---------------------------------------------------------------------------
(* stock_app.py, from the bottom up: each operator is the rest of the      *)
(* script from one point on and yields the set of ways the run can end.    *)

\* the script's h['Close'] and h['RSI']
WithHistory(s, h) == [s EXCEPT !.Close = h.Close, !.RSI = h.RSI]

\* lines 121-163: the indicator chart of one selected non-bond symbol
Indicators(s) ==
    LET stock_options == NonBonds(unique(Column(s.holdings)))
    IN  IF stock_options = <<>> THEN {s}
        ELSE UNION {
            {Caught(Call(Show(s, <<"selectbox">>), "history", sel_stock, "raise"))}
            \cup {Show(WithHistory(Call(Show(s, <<"selectbox">>),
                                        "history", sel_stock, "ok"), h),
                       <<"indicator_chart">>)
                  : h \in Histories}
            : sel_stock \in Range(stock_options)}

\* lines 95-119: the dividend table, the charts, the detail table, the exports
Tables(s) ==
    IF "name" \notin s.columns THEN {Caught(s)}
    ELSE Indicators(Show(s, <<"div_table", "div_csv", "pie", "bar",
                              "detail_table", "detail_csv">>))

\* lines 86-88 and the delta of line 92
Summary(d) ==
    LET t_val == FSum([i \in DOMAIN d |-> d[i].mv_twd])
        t_profit == FSum([i \in DOMAIN d |-> d[i].profit_twd])
        t_div == FSum([i \in DOMAIN d |-> d[i].net_div_twd])
    IN  [t_val |-> t_val, t_profit |-> t_profit, t_div |-> t_div,
         pct |-> FMul(FDiv(t_profit, t_val), I(100))]

\* lines 61-93: the derived columns and the three KPIs
Compute(s) ==
    IF ~({"symbol", "shares", "currency", "cost"} \subseteq s.columns)
    THEN {Caught(s)}
    ELSE LET d == Apply(s.holdings, s.price_map, s.div_map, s.usd_to_twd)
         IN  IF AnyRaised(d) THEN {Caught(s)}
             ELSE Tables(Show([s EXCEPT !.df = d, !.summary = Summary(d)],
                              <<"kpi">>))

\* lines 50-59: one Ticker per distinct symbol, in order
RECURSIVE FetchQuotes(_, _)
FetchQuotes(s, syms) ==
    IF syms = <<>> THEN Compute(s)
    ELSE LET sym == Head(syms)
         IN  {Caught(Call(s, "quote", sym, "raise"))}
             \cup UNION {
                 FetchQuotes(
                     [Call(Call(s, "quote", sym, IF p = NoneV THEN "none" ELSE "ok"),
                           "dividends", sym, IF dv.empty THEN "empty" ELSE "ok")
                        EXCEPT !.price_map = Put(@, sym, p),
                               !.div_map = Put(@, sym,
                                   IF dv.empty THEN I(0) ELSE dv.last_year)],
                     Tail(syms))
                 : <<p, dv>> \in Prices \X DivResponses}

\* lines 25-29 and 43-45
load_data(s) ==
    UNION {
        IF ~resp.ok THEN {Caught(Call(s, "sheet", s.gsheet_id, "raise"))}
        ELSE LET t == [Call(s, "sheet", s.gsheet_id, "ok")
                         EXCEPT !.holdings = resp.rows, !.columns = resp.cols]
             IN  IF "symbol" \notin resp.cols THEN {Caught(t)}
                 ELSE FetchQuotes(t, unique(Column(resp.rows)))
        : resp \in SheetResponses}

---------------------------------------------------------------------------
(* get_exchange_rate and its st.cache_data(ttl=3600) entry                 *)

TTL == 3600

\* line 37: the rate used when the quote raises
fallback_rate == Q(65, 2)

NoEntry == [has |-> FALSE, value |-> NoneV, at |-> 0]

\* a slip: an entry that never expires
CacheFresh_forever(cache, t) == cache.has

\* an entry is served until ttl seconds have passed since it was stored
CacheFresh(cache, t) == cache.has /\ t - cache.at < TTL

\* the undecorated body, lines 33-37
fetch_rate(resp) == IF resp = Raise THEN fallback_rate ELSE resp

get_exchange_rate(s) ==
    IF CacheFresh(s.rate_cache, now)
    THEN {[s EXCEPT !.usd_to_twd = s.rate_cache.value]}
    ELSE {[Call(s, "rate", "TWD=X",
                IF resp = Raise THEN "raise" ELSE IF resp = NoneV THEN "none" ELSE "ok")
             EXCEPT !.usd_to_twd = fetch_rate(resp),
                    !.rate_cache = [has |-> TRUE, value |-> fetch_rate(resp),
                                    at |-> now]]
          : resp \in RateResponses}

\* stock_app.py lines 9-45: the sheet-id gate, the rate and its metric; the
\* format of line 41 raises TypeError on None, outside the try
stock_app(text) ==
    LET configured == "GSHEET_ID" \in secrets
        s0 == Show([Fresh("main") EXCEPT !.gsheet_id = IF configured THEN SheetId ELSE text],
                   IF configured THEN <<"title">> ELSE <<"title", "sheet_id_input">>)
    IN  IF s0.gsheet_id = "" THEN {Show(s0, <<"info">>)}
        ELSE UNION {
            IF s1.usd_to_twd = NoneV THEN {Uncaught(s1)}
            ELSE load_data(Show(s1, <<"rate_metric">>))
            : s1 \in get_exchange_rate(s0)}

---------------------------------------------------------------------------
(* pages/1_Technical_Analysis.py and pages/2_Valuation_Analysis.py         *)

\* a slip: the gate looks the flag up under another key
Authenticated_other_key ==
    "auth" \in DOMAIN session_state /\ session_state["auth"]

\* the condition of the gate, pages/1 line 8 and pages/2 line 6
Authenticated ==
    "authenticated" \in DOMAIN session_state /\ session_state["authenticated"]

\* load_symbols and the selectbox: pages/1 lines 14-22, pages/2 lines 12-22.
\* st.secrets.get gives None without the key, and the export of sheet "None"
\* fails; a selectbox without options gives None, and yf.Ticker(None) raises.
\* Yields the runs that ended here and those that go on with a sel_stock.
Ended(s) == [run |-> s, ended |-> TRUE, sel_stock |-> ""]
GoesOn(s, sel_stock) == [run |-> s, ended |-> FALSE, sel_stock |-> sel_stock]

load_symbols(s) ==
    LET s0 == [s EXCEPT !.gsheet_id = IF "GSHEET_ID" \in secrets THEN SheetId ELSE ""]
    IN  UNION {
        IF ~resp.ok THEN {Ended(Caught(Call(s0, "symbols", s0.gsheet_id, "raise")))}
        ELSE LET t == [Call(s0, "symbols", s0.gsheet_id, "ok")
                         EXCEPT !.columns = resp.cols]
             IN  IF "symbol" \notin resp.cols THEN {Ended(Caught(t))}
                 ELSE LET syms == unique(Column(resp.rows))
                          u == Show([t EXCEPT !.symbols = syms], <<"selectbox">>)
                      IN  IF NonBonds(syms) = <<>> THEN {Ended(Caught(u))}
                          ELSE {GoesOn(u, sel_stock)
                                : sel_stock \in Range(NonBonds(syms))}
        : resp \in (IF s0.gsheet_id = "" THEN {NoSheet} ELSE SheetResponses)}

\* pages/1 lines 24-110: h['Close'].iloc[-1] raises IndexError on an empty history
Diagnose(s, sel_stock) ==
    {Caught(Call(s, "history", sel_stock, "raise"))}
    \cup {LET t == WithHistory(Call(s, "history", sel_stock, "ok"), h)
          IN  IF h.Close = <<>> THEN Caught(t)
              ELSE Show(t, <<"diagnosis", "advice", "indicator_chart">>)
          : h \in Histories}

\* pages/1 lines 8-12
Technical_Analysis ==
    IF ~Authenticated THEN {Show(Fresh("tech"), <<"warning">>)}
    ELSE UNION {IF x.ended THEN {x.run} ELSE Diagnose(x.run, x.sel_stock)
                : x \in load_symbols(Show(Fresh("tech"), <<"title">>))}

\* tk.info: an exception, a dict whose trailingEps is None, or a full dict
InfoResponses == {"raise", "no_eps", "ok"}
\* tk.get_earnings_dates: an exception, nothing, or a table
EarningsResponses == {"raise", "none", "ok"}

\* pages/2 lines 24-89: formatting a None EPS raises TypeError
Valuation(s, sel_stock) ==
    UNION {
        IF info = "raise" THEN {Caught(Call(s, "info", sel_stock, "raise"))}
        ELSE LET t == Show(Call(s, "info", sel_stock, "ok"), <<"pe_metrics">>)
             IN  IF info = "no_eps" THEN {Caught(t)}
                 ELSE {IF e = "raise"
                       THEN Caught(Call(Show(t, <<"eps_table", "notes">>),
                                        "earnings", sel_stock, "raise"))
                       ELSE Show(Call(Show(t, <<"eps_table", "notes">>),
                                      "earnings", sel_stock, e),
                                 IF e = "ok" THEN <<"earnings_table">>
                                 ELSE <<"earnings_info">>)
                       : e \in EarningsResponses}
        : info \in InfoResponses}

\* pages/2 lines 6-10
Valuation_Analysis ==
    IF ~Authenticated THEN {Show(Fresh("val"), <<"warning">>)}
    ELSE UNION {IF x.ended THEN {x.run} ELSE Valuation(x.run, x.sel_stock)
                : x \in load_symbols(Show(Fresh("val"), <<"title">>))}

---------------------------------------------------------------------------
(* The password prompt.  No script under src/ writes the authenticated     *)
(* flag the two pages read; the prompt is modelled from the specification. *)

APP_PASSWORD == "open-sesame"
Passwords == {APP_PASSWORD, "guess"}

check_password(submitted) == submitted = APP_PASSWORD

password_prompt(submitted) ==
    LET s == Show([Fresh("login") EXCEPT !.password = submitted], <<"password_input">>)
    IN  IF check_password(submitted) THEN s ELSE Show(s, <<"login_error">>)

---------------------------------------------------------------------------
(* Actions                                                                 *)

EmptyState == [x \in {} |-> TRUE]

\* the names a run leaves behind
Commit(r) ==
    /\ page' = r.page
    /\ gsheet_id' = r.gsheet_id
    /\ usd_to_twd' = r.usd_to_twd
    /\ holdings' = r.holdings
    /\ price_map' = r.price_map
    /\ div_map' = r.div_map
    /\ df' = r.df
    /\ summary' = r.summary
    /\ Close' = r.Close
    /\ RSI' = r.RSI
    /\ columns' = r.columns
    /\ symbols' = r.symbols
    /\ password' = r.password
    /\ widgets' = r.widgets
    /\ error' = r.error
    /\ calls' = r.calls
    /\ rate_cache' = r.rate_cache
    /\ symbols_at' = IF \E i \in DOMAIN r.calls :
                             r.calls[i].to = "symbols" /\ r.calls[i].result = "ok"
                     THEN now ELSE symbols_at

MainPage ==
    /\ \E text \in (IF "GSHEET_ID" \in secrets THEN {""} ELSE SidebarTexts) :
          \E r \in stock_app(text) : Commit(r)
    /\ UNCHANGED <<secrets, session_state, now>>

TechPage ==
    /\ \E r \in Technical_Analysis : Commit(r)
    /\ UNCHANGED <<secrets, session_state, now>>

ValPage ==
    /\ \E r \in Valuation_Analysis : Commit(r)
    /\ UNCHANGED <<secrets, session_state, now>>

Login ==
    /\ \E submitted \in Passwords :
          /\ Commit(password_prompt(submitted))
          /\ session_state' = IF check_password(submitted)
                              THEN Put(session_state, "authenticated", TRUE)
                              ELSE session_state
    /\ UNCHANGED <<secrets, now>>

Tick ==
    /\ now + TickStep <= MaxTime
    /\ now' = now + TickStep
    /\ UNCHANGED <<secrets, session_state, rate_cache, page, gsheet_id, usd_to_twd,
                   holdings, price_map, div_map, df, summary, Close, RSI,
                   columns, symbols, symbols_at, password, widgets, error, calls>>

\* nothing has run yet
Idle ==
    /\ session_state = EmptyState
    /\ now = 0
    /\ rate_cache = NoEntry
    /\ symbols_at = -1
    /\ page = "none"
    /\ df = <<>>
    /\ summary = NoSummary
    /\ RSI = <<>>
    /\ symbols = <<>>
    /\ password = ""
    /\ widgets = <<>>
    /\ error = ""
    /\ calls = <<>>

NoSheetYet ==
    /\ gsheet_id = ""
    /\ usd_to_twd = NoneV
    /\ holdings = <<>>
    /\ price_map = EmptyMap
    /\ div_map = EmptyMap
    /\ columns = {}

Init ==
    /\ secrets \in {{}, {"GSHEET_ID"}}
    /\ Idle
    /\ NoSheetYet
    /\ Close = <<>>

Next == MainPage \/ TechPage \/ ValPage \/ Login \/ Tick

Spec == Init /\ [][Next]_vars

---------------------------------------------------------------------------
(* The valuation on its own: line 83 applied to any sheet and any quotes   *)

MaxRows == 1

ValSymbols == {"AAPL", "TLT", "2330.TW"}
ValRows ==
    {Row(sym, sym, shares, cost, currency)
     : sym \in ValSymbols, shares \in {0, 10}, cost \in {0, 100},
       currency \in {"USD", "TWD"}}
ValHoldings == UNION {[1..n -> ValRows] : n \in 1..MaxRows}
ValPrices == {I(0), I(150), Q(1, 2)}
ValDividends == {I(0), I(2)}
ValRates == {I(30), I(32), fallback_rate}

InitVal ==
    /\ secrets = {"GSHEET_ID"}
    /\ Idle
    /\ gsheet_id = SheetId
    /\ usd_to_twd \in ValRates
    /\ holdings \in ValHoldings
    /\ price_map \in [Range(Column(holdings)) -> ValPrices]
    /\ div_map \in [Range(Column(holdings)) -> ValDividends]
    /\ columns = AllCols
    /\ Close = <<>>

\* line 83
Valuate ==
    /\ df = <<>>
    /\ df' = Apply(holdings, price_map, div_map, usd_to_twd)
    /\ UNCHANGED <<secrets, session_state, now, rate_cache, page, gsheet_id,
                   usd_to_twd, holdings, price_map, div_map, summary, Close, RSI,
                   columns, symbols, symbols_at, password, widgets, error, calls>>

SpecVal == InitVal /\ [][Valuate]_vars

---------------------------------------------------------------------------
(* The RSI on its own: the indicator lines applied to any close series     *)

ClosePrices == {99, 100, 101}
CloseSeries ==
    {Seg(a, b, c, i, j, HistLen)
     : a \in ClosePrices, b \in ClosePrices, c \in ClosePrices,
       i \in 0..HistLen, j \in 0..HistLen}

InitRSI ==
    /\ secrets = {"GSHEET_ID"}
    /\ Idle
    /\ NoSheetYet
    /\ Close \in CloseSeries

\* lines 136-139
ComputeRSI ==
    /\ RSI = <<>>
    /\ \E zs \in ZeroSigns(Close) : RSI' = rsi(Close, zs)
    /\ UNCHANGED <<secrets, session_state, now, rate_cache, page, gsheet_id,
                   usd_to_twd, holdings, price_map, div_map, df, summary, Close,
                   columns, symbols, symbols_at, password, widgets, error, calls>>

SpecRSI == InitRSI /\ [][ComputeRSI]_vars

---------------------------------------------------------------------------
(* Properties                                                              *)

\* the session's authenticated flag is true
FlagSet ==
    "authenticated" \in DOMAIN session_state /\ session_state["authenticated"] = TRUE

Count(to, log) == Cardinality({i \in DOMAIN log : log[i].to = to})
Shown(w) == w \in Range(widgets)

\* the last run got the sheet from the spreadsheet export
FetchedHoldings ==
    \E i \in DOMAIN calls : calls[i].to \in {"sheet", "symbols"} /\ calls[i].result = "ok"

\* what only the owner of the portfolio should see
Content ==
    {"kpi", "div_table", "div_csv", "pie", "bar", "detail_table",
     "detail_csv", "selectbox", "indicator_chart", "diagnosis", "advice",
     "pe_metrics", "eps_table", "notes", "earnings_table", "earnings_info"}

\* C1: on every page nothing is fetched and no portfolio content is shown
\* unless the session's authenticated flag is true.
C1_GatedEverywhere ==
    (FetchedHoldings \/ \E w \in Content : Shown(w)) => FlagSet

RateOf(row) == IF row.currency = "USD" THEN usd_to_twd ELSE I(1)
Times(a, b, c) == FMul(FMul(a, b), c)

\* C3: market value = last_price x shares x rate, cost = cost_basis x shares x
\* rate, profit = market value - cost and, where the cost is positive,
\* ROI% = profit / cost x 100, with rate the exchange rate for a USD holding
\* and 1 for any other; 10 shares bought at 100 and priced 150 at rate 32 give
\* value 48000, cost 32000, profit 16000 and ROI 50.
C3_Valuation ==
    \A i \in DOMAIN df :
        LET row == holdings[i]
            value == Times(price_map[row.symbol], row.shares, RateOf(row))
            cost == Times(row.cost, row.shares, RateOf(row))
        IN  /\ df[i].mv_twd = value
            /\ df[i].profit_twd = FSub(value, cost)
            /\ FSub(df[i].mv_twd, df[i].profit_twd) = cost
            /\ FGt(cost, I(0)) => FMul(df[i].roi, cost) = FMul(FSub(value, cost), I(100))
            /\ (/\ row.currency = "USD" /\ row.shares = I(10) /\ row.cost = I(100)
                /\ price_map[row.symbol] = I(150) /\ usd_to_twd = I(32))
               => /\ df[i].mv_twd = I(48000)
                  /\ FSub(df[i].mv_twd, df[i].profit_twd) = I(32000)
                  /\ df[i].profit_twd = I(16000)
                  /\ df[i].roi = I(50)

\* C3 witness: the worked example has been valued.
C3_Example ==
    /\ df # <<>>
    /\ holdings[1].currency = "USD" /\ holdings[1].shares = I(10)
    /\ holdings[1].cost = I(100) /\ price_map[holdings[1].symbol] = I(150)
    /\ usd_to_twd = I(32)

\* C4: a holding whose cost is 0 (cost basis 0 or no shares) gets ROI 0, a
\* number, whatever its price, currency and rate, and process_row does not raise.
C4_ZeroCost ==
    \A i \in DOMAIN df :
        (holdings[i].cost = I(0) \/ holdings[i].shares = I(0))
        => df[i].roi = I(0) /\ ~df[i].raised

\* C4 witness: a holding held at no cost that is worth something.
C4_FreeShares ==
    \E i \in DOMAIN df :
        /\ holdings[i].cost = I(0) /\ holdings[i].shares = I(10)
        /\ price_map[holdings[i].symbol] = I(150)

\* C5: net dividend = dividend x shares x 0.7 x rate for a USD holding outside
\* the exemption list, x 1.0 x rate for a USD holding in it, and dividend x
\* shares for any other currency; $2 over 10 taxed USD shares at 32 give 448.
C5_NetDividend ==
    \A i \in DOMAIN df :
        LET row == holdings[i]
            raw == FMul(div_map[row.symbol], row.shares)
        IN  /\ df[i].net_div_twd =
                 IF row.currency # "USD" THEN raw
                 ELSE IF row.symbol \in {"TLT", "SHV", "SGOV", "LQD"}
                      THEN FMul(raw, usd_to_twd)
                      ELSE FMul(FMul(raw, Q(7, 10)), usd_to_twd)
            /\ (/\ row.currency = "USD" /\ row.symbol = "AAPL" /\ row.shares = I(10)
                /\ div_map[row.symbol] = I(2) /\ usd_to_twd = I(32))
               => df[i].net_div_twd = I(448)

\* C5 witness: a dividend-paying USD bond, which is exempt, has been valued.
C5_ExemptBond ==
    \E i \in DOMAIN df :
        /\ holdings[i].symbol = "TLT" /\ holdings[i].currency = "USD"
        /\ holdings[i].shares = I(10) /\ div_map["TLT"] = I(2)

\* C6: under another exchange rate r2 the market value, profit and net
\* dividend of a USD holding are those under the rate in use scaled by
\* r2 / rate, its price, shares, cost basis, yield and ROI are the same, and a
\* holding in any other currency is the same in every field.
C6_RateScaling ==
    \A i \in DOMAIN df : \A r2 \in ValRates :
        LET a == df[i]
            b == process_row(holdings[i], price_map, div_map, r2)
        IN  /\ b.current_price = a.current_price /\ b.shares = a.shares
            /\ b.cost = a.cost /\ b.yield_rate = a.yield_rate /\ b.roi = a.roi
            /\ IF holdings[i].currency = "USD"
               THEN /\ FMul(b.mv_twd, usd_to_twd) = FMul(a.mv_twd, r2)
                    /\ FMul(b.profit_twd, usd_to_twd) = FMul(a.profit_twd, r2)
                    /\ FMul(b.net_div_twd, usd_to_twd) = FMul(a.net_div_twd, r2)
               ELSE b = a

\* C6 witness: a TWD holding with value, profit and dividend has been valued
\* at the fallback rate.
C6_LocalHolding ==
    \E i \in DOMAIN df :
        /\ holdings[i].currency = "TWD" /\ holdings[i].shares = I(10)
        /\ holdings[i].cost = I(100) /\ price_map[holdings[i].symbol] = I(150)
        /\ div_map[holdings[i].symbol] = I(2) /\ usd_to_twd = fallback_rate

\* the requests of the last run that went to `to` and ended in `results`
CallsEnded(to, results) ==
    {calls[i].arg : i \in {j \in DOMAIN calls :
                              calls[j].to = to /\ calls[j].result \in results}}

\* nothing but a quote went wrong in the last run
OnlyQuotesMissing ==
    /\ columns = AllCols
    /\ \A i \in DOMAIN calls : calls[i].to # "quote" => calls[i].result # "raise"

\* C7: when the provider has no last price for a symbol, the price is taken
\* as zero, the symbol's rows are still produced (market value 0, yield 0)
\* and the dashboard still renders; a symbol without dividend history has an
\* annual dividend of 0, without an error.
C7_MissingQuote ==
    (page = "main" /\ OnlyQuotesMissing) =>
        /\ \A sym \in CallsEnded("quote", {"none", "raise"}) :
              /\ error = "" /\ Shown("kpi") /\ Shown("detail_table")
              /\ \A i \in DOMAIN holdings :
                    holdings[i].symbol = sym =>
                        /\ i \in DOMAIN df
                        /\ df[i].current_price = I(0)
                        /\ df[i].mv_twd = I(0)
                        /\ df[i].yield_rate = I(0)
        /\ \A sym \in CallsEnded("dividends", {"empty"}) :
              sym \in DOMAIN div_map /\ div_map[sym] = I(0)

\* some fetch of the last run failed, or a column the script reads is missing
Failed ==
    \/ \E i \in DOMAIN calls : calls[i].result = "raise"
    \/ (columns # {} /\ columns # AllCols /\ page = "main")

\* C8: a failure while fetching or computing ends the render with a
\* user-visible error message and never with an uncaught exception.
C8_FailuresSurface == Failed => (Shown("error") /\ error = "caught")

\* a main-script run that reached line 40, and a page run that reached
\* load_symbols, as steps
RanMain == page' = "main" /\ now' = now /\ gsheet_id' # ""
RanPage == page' \in {"tech", "val"} /\ now' = now /\ FlagSet

\* the exchange-rate lookup is memoized for 3600 s
RateMemoized ==
    /\ RanMain =>
         IF rate_cache.has /\ now - rate_cache.at < 3600
         THEN /\ Count("rate", calls') = 0
              /\ usd_to_twd' = rate_cache.value
              /\ rate_cache' = rate_cache
         ELSE /\ Count("rate", calls') = 1
              /\ rate_cache' = [has |-> TRUE, value |-> usd_to_twd', at |-> now]
    /\ rate_cache' # rate_cache =>
         RanMain /\ ~(rate_cache.has /\ now - rate_cache.at < 3600)

\* C9 as claimed: the exchange-rate lookup and the symbol-list lookup are
\* both memoized for 3600 s: a lookup within the window contacts nothing.
C9_BothMemoized ==
    [][/\ RateMemoized
       /\ (RanPage /\ symbols_at >= 0 /\ now - symbols_at < 3600)
          => Count("symbols", calls') = 0]_vars

\* C9 as amended: the exchange-rate lookup is served from its entry until
\* 3600 s have passed since it was stored, is then fetched exactly once and
\* stored again, and nothing else replaces the entry; the symbol list is not
\* memoized: every page run that passes the gate requests it once.
C9_Memoization ==
    [][/\ RateMemoized
       /\ RanPage => Count("symbols", calls') = 1]_vars

\* C9 witness: a run served the rate from an entry stored earlier.
C9_CacheHit ==
    /\ page = "main" /\ Shown("rate_metric")
    /\ Count("rate", calls) = 0
    /\ rate_cache.has /\ rate_cache.at < now

\* C10: wherever the average loss of the 14-period window is 0, the average
\* gain being 0 too or not, the RSI is exactly 100 and never nan.
C10_Saturates ==
    \A i \in DOMAIN RSI :
        (i >= 14 /\ avg_loss(Close)[i] = I(0)) => RSI[i] = I(100)

=============================================================================
